---- MODULE Spec2Model ----
(***************************************************************************)
(* Model of the TestApp extension trait of bevy_test_utils (src/lib.rs):   *)
(* run_system_once, run_systems_once and collect_events, together with the *)
(* parts of the host ECS they drive: a transient SystemStage with its       *)
(* parallel executor and command buffers, and the double-buffered           *)
(* Events<E> resource read through a ManualEventReader.                     *)
(***************************************************************************)
EXTENDS Naturals, Integers, Sequences, FiniteSets, TLC

VARIABLES
    world,      \* App.world: resources, entities and the Events<E> resource
    pc,         \* "idle": no call in progress; "running": inside stage.run
    call,       \* which operation made the stage: "none", "single", "batch"
    stage,      \* the systems of the transient SystemStage, in insertion order
    st,         \* per system of the stage: "waiting", "running", "done", "panicked"
    loc,        \* per system: the value its logic read when it started
    cmds,       \* per system: the spawn commands in its command buffer
    outcome,    \* how the last run call ended: "none", "ok", "panic"
    lastResult, \* what the last collect_events call gave its caller
    streak,     \* consecutive collect_events calls with nothing in between (capped at 2)
    world0,     \* history: the world when the current/last run call began
    handed,     \* history: the systems the current/last run call was given
    runs,       \* history: per system of the stage, how often its logic started
    passed,     \* history: per system kind, how often it was handed to a call
    executed,   \* history: per system kind, how often its logic started
    queued,     \* history: spawn commands queued during the current/last run call
    queuedAll,  \* history: spawn commands queued by every run call so far
    sentLog,    \* history: every event sent, in sending order
    updated,    \* history: Events::update ran after some event had been sent
    calls       \* history: number of run calls begun

vars == << world, pc, call, stage, st, loc, cmds, outcome, lastResult, streak,
           world0, handed, runs, passed, executed, queued, queuedAll, sentLog, updated, calls >>

runVars == << pc, call, stage, st, loc, cmds, outcome, world0, handed, runs, passed,
              executed, queued, queuedAll, calls >>

eventHistory == << sentLog, updated >>

----------------------------------------------------------------------------
(* Bounds *)

MaxCalls == 2
MaxBatch == 2
MaxEvents == 2

EventValues == {"e1", "e2"}

Systems == {"IncA", "IncB", "Spawn", "Query", "Fail"}
BatchSystems == Systems \ {"Fail"}

RECURSIVE SeqsUpTo(_, _)
SeqsUpTo(S, n) ==
    IF n = 0 THEN {<< >>}
    ELSE LET shorter == SeqsUpTo(S, n - 1)
         IN  shorter \cup {Append(s, x) : s \in {t \in shorter : Len(t) = n - 1}, x \in S}

Batches == SeqsUpTo(BatchSystems, MaxBatch)

----------------------------------------------------------------------------
(* Helpers *)

RECURSIVE SumSeq(_)
SumSeq(s) == IF s = << >> THEN 0 ELSE Head(s) + SumSeq(Tail(s))

CountOf(k, s) == Cardinality({i \in DOMAIN s : s[i] = k})

Fill(s, v) == [i \in DOMAIN s |-> v]

Drop(s, n) == IF n >= Len(s) THEN << >> ELSE SubSeq(s, n + 1, Len(s))

SatSub(a, b) == IF a >= b THEN a - b ELSE 0

Payloads(s) == [i \in DOMAIN s |-> s[i].event]

----------------------------------------------------------------------------
(* Events<E> and ManualEventReader<E> *)

NoEvents ==
    [present |-> FALSE, events_a |-> << >>, events_b |-> << >>,
     a_start |-> 0, b_start |-> 0, event_count |-> 0]

EmptyEvents == [NoEvents EXCEPT !.present = TRUE]

EventsSend(ev, e) ==
    [ev EXCEPT !.events_b = Append(@, [id |-> ev.event_count, event |-> e]),
               !.event_count = @ + 1]

EventsUpdate(ev) ==
    [ev EXCEPT !.events_a = ev.events_b, !.a_start = ev.b_start,
               !.events_b = << >>, !.b_start = ev.event_count]

GetReaderCurrent(ev) == [last_event_count |-> ev.event_count]

GetReader(ev) == [last_event_count |-> 0]

ReaderIter(reader, ev) ==
    LET a == Drop(ev.events_a, SatSub(reader.last_event_count, ev.a_start))
        b == Drop(ev.events_b, SatSub(reader.last_event_count, ev.b_start))
    IN  [items  |-> Payloads(a \o b),
         reader |-> [last_event_count |-> ev.event_count]]

MissingEmpty == [ok |-> TRUE, items |-> << >>]

MissingResource == [ok |-> FALSE, items |-> << >>]

CollectPresent(w) ==
    LET event_res == w.events
        event_reader == GetReader(event_res)
        it == ReaderIter(event_reader, event_res)
    IN  [ok |-> TRUE, items |-> it.items]

DrainingCollect(w) ==
    IF ~w.events.present
    THEN [result |-> MissingResource, world |-> w]
    ELSE [result |-> CollectPresent(w),
          world  |-> [w EXCEPT !.events.events_a = << >>,
                               !.events.events_b = << >>,
                               !.events.a_start = w.events.event_count,
                               !.events.b_start = w.events.event_count]]

CollectOrEmpty(w) ==
    [result |-> IF w.events.present THEN CollectPresent(w) ELSE MissingEmpty,
     world  |-> w]

CollectEventsOf(w) ==
    [result |-> IF w.events.present THEN CollectPresent(w) ELSE MissingResource,
     world  |-> w]

----------------------------------------------------------------------------
(* Systems handed to the calls, and the stage that runs them *)

Writes(k) ==
    CASE k = "IncA"  -> {"A"}
      [] k = "IncB"  -> {"B"}
      [] k = "Fail"  -> {"F"}
      [] k = "Query" -> {"Seen"}
      [] OTHER       -> {}

Reads(k) == IF k = "Query" THEN {"Entities"} ELSE {}

NeverConflicts(k1, k2) == FALSE

Conflicts(k1, k2) ==
    \/ Writes(k1) \cap (Reads(k2) \cup Writes(k2)) # {}
    \/ Writes(k2) \cap (Reads(k1) \cup Writes(k1)) # {}

SingleTwice(system) == << system, system >>

SingleStage(system) == << system >>

ParallelStageDroppingLast(systems) ==
    IF systems = << >> THEN << >> ELSE SubSeq(systems, 1, Len(systems) - 1)

ParallelStage(systems) == systems

AllFinished(s) == \A i \in DOMAIN s : s[i] = "done"

SystemRead(k, w) ==
    CASE k = "IncA"  -> w.res.A
      [] k = "IncB"  -> w.res.B
      [] k = "Fail"  -> w.res.F
      [] k = "Query" -> w.entities
      [] OTHER       -> 0

SystemWrite(k, v, w) ==
    CASE k = "IncA"  -> [w EXCEPT !.res.A = v + 1]
      [] k = "IncB"  -> [w EXCEPT !.res.B = v + 1]
      [] k = "Fail"  -> [w EXCEPT !.res.F = v + 1]
      [] k = "Query" -> [w EXCEPT !.seen = v]
      [] OTHER       -> w

SystemQueues(k) == IF k = "Spawn" THEN 1 ELSE 0

ImmediateCommands(k, w) == [w EXCEPT !.entities = @ + SystemQueues(k)]

CommandsDuringRun(k, w) == w

ApplyFirstBuffer(c, w) ==
    [w EXCEPT !.entities = @ + (IF c = << >> THEN 0 ELSE c[1])]

ApplyBuffers(c, w) == [w EXCEPT !.entities = @ + SumSeq(c)]

RollBack(w, w0) == w0

AfterPanic(w, w0) == w

----------------------------------------------------------------------------
(* Initial state: a freshly built App, nothing registered, nothing run *)

Init ==
    /\ world = [res |-> [A |-> 0, B |-> 0, F |-> 0], entities |-> 0, seen |-> 0,
                events |-> NoEvents]
    /\ pc = "idle"
    /\ call = "none"
    /\ stage = << >>
    /\ st = << >>
    /\ loc = << >>
    /\ cmds = << >>
    /\ outcome = "none"
    /\ lastResult = MissingEmpty
    /\ streak = 0
    /\ world0 = world
    /\ handed = << >>
    /\ runs = << >>
    /\ passed = [k \in Systems |-> 0]
    /\ executed = [k \in Systems |-> 0]
    /\ queued = 0
    /\ queuedAll = 0
    /\ sentLog = << >>
    /\ updated = FALSE
    /\ calls = 0

----------------------------------------------------------------------------
(* Operations *)

BeginStage(kind, systems, given) ==
    /\ pc = "idle"
    /\ calls < MaxCalls
    /\ pc' = "running"
    /\ call' = kind
    /\ stage' = systems
    /\ st' = Fill(systems, "waiting")
    /\ loc' = Fill(systems, 0)
    /\ cmds' = Fill(systems, 0)
    /\ runs' = Fill(systems, 0)
    /\ world0' = world
    /\ handed' = given
    /\ queued' = 0
    /\ passed' = [k \in Systems |-> passed[k] + CountOf(k, given)]
    /\ calls' = calls + 1
    /\ streak' = 0
    /\ UNCHANGED << world, outcome, lastResult, executed, queuedAll, sentLog, updated >>

run_system_once ==
    \E system \in Systems : BeginStage("single", SingleStage(system), << system >>)

run_systems_once ==
    \E systems \in Batches : BeginStage("batch", ParallelStage(systems), systems)

StartSystem(i) ==
    /\ pc = "running"
    /\ i \in DOMAIN stage
    /\ st[i] = "waiting"
    /\ \A j \in DOMAIN stage : st[j] = "running" => ~Conflicts(stage[i], stage[j])
    /\ st' = [st EXCEPT ![i] = "running"]
    /\ loc' = [loc EXCEPT ![i] = SystemRead(stage[i], world)]
    /\ runs' = [runs EXCEPT ![i] = @ + 1]
    /\ executed' = [executed EXCEPT ![stage[i]] = @ + 1]
    /\ UNCHANGED << world, pc, call, stage, cmds, outcome, lastResult, streak, world0,
                    handed, passed, queued, queuedAll, sentLog, updated, calls >>

FinishSystem(i) ==
    /\ pc = "running"
    /\ i \in DOMAIN stage
    /\ st[i] = "running"
    /\ stage[i] # "Fail"
    /\ world' = CommandsDuringRun(stage[i], SystemWrite(stage[i], loc[i], world))
    /\ cmds' = [cmds EXCEPT ![i] = @ + SystemQueues(stage[i])]
    /\ queued' = queued + SystemQueues(stage[i])
    /\ queuedAll' = queuedAll + SystemQueues(stage[i])
    /\ st' = [st EXCEPT ![i] = "done"]
    /\ UNCHANGED << pc, call, stage, loc, outcome, lastResult, streak, world0, handed, runs,
                    passed, executed, sentLog, updated, calls >>

PanicSystem(i) ==
    /\ pc = "running"
    /\ i \in DOMAIN stage
    /\ st[i] = "running"
    /\ stage[i] = "Fail"
    /\ world' = AfterPanic(SystemWrite(stage[i], loc[i], world), world0)
    /\ st' = [st EXCEPT ![i] = "panicked"]
    /\ cmds' = Fill(stage, 0)
    /\ pc' = "idle"
    /\ outcome' = "panic"
    /\ UNCHANGED << call, stage, loc, lastResult, streak, world0, handed, runs, passed,
                    executed, queued, queuedAll, sentLog, updated, calls >>

ReturnFromRun ==
    /\ pc = "running"
    /\ AllFinished(st)
    /\ world' = ApplyBuffers(cmds, world)
    /\ cmds' = Fill(stage, 0)
    /\ pc' = "idle"
    /\ outcome' = "ok"
    /\ UNCHANGED << call, stage, st, loc, lastResult, streak, world0, handed, runs, passed,
                    executed, queued, queuedAll, sentLog, updated, calls >>

collect_events ==
    /\ pc = "idle"
    /\ LET r == CollectEventsOf(world)
       IN  /\ lastResult' = r.result
           /\ world' = r.world
    /\ streak' = IF streak < 2 THEN streak + 1 ELSE 2
    /\ UNCHANGED << runVars, eventHistory >>

add_event ==
    /\ pc = "idle"
    /\ ~world.events.present
    /\ world' = [world EXCEPT !.events = EmptyEvents]
    /\ streak' = 0
    /\ UNCHANGED << runVars, eventHistory, lastResult >>

send_event(e) ==
    /\ pc = "idle"
    /\ world.events.present
    /\ world.events.event_count < MaxEvents
    /\ world' = [world EXCEPT !.events = EventsSend(@, e)]
    /\ sentLog' = Append(sentLog, e)
    /\ streak' = 0
    /\ UNCHANGED << runVars, updated, lastResult >>

update_events ==
    /\ pc = "idle"
    /\ world.events.present
    /\ world' = [world EXCEPT !.events = EventsUpdate(@)]
    /\ updated' = (updated \/ sentLog # << >>)
    /\ streak' = 0
    /\ UNCHANGED << runVars, sentLog, lastResult >>

Next ==
    \/ run_system_once
    \/ run_systems_once
    \/ \E i \in 1..MaxBatch : StartSystem(i)
    \/ \E i \in 1..MaxBatch : FinishSystem(i)
    \/ \E i \in 1..MaxBatch : PanicSystem(i)
    \/ ReturnFromRun
    \/ collect_events
    \/ add_event
    \/ \E e \in EventValues : send_event(e)
    \/ update_events

Spec == Init /\ [][Next]_vars

(* run_system_once and run_systems_once alone *)
RunNext ==
    \/ run_system_once
    \/ run_systems_once
    \/ \E i \in 1..MaxBatch : StartSystem(i)
    \/ \E i \in 1..MaxBatch : FinishSystem(i)
    \/ \E i \in 1..MaxBatch : PanicSystem(i)
    \/ ReturnFromRun

SpecRun == Init /\ [][RunNext]_vars

(* collect_events and the event queue alone *)
EventNext ==
    \/ collect_events
    \/ add_event
    \/ \E e \in EventValues : send_event(e)
    \/ update_events

SpecEvents == Init /\ [][EventNext]_vars

(* collect_events in a world that single-system runs have filled *)
AppNext ==
    \/ run_system_once
    \/ \E i \in 1..MaxBatch : StartSystem(i)
    \/ \E i \in 1..MaxBatch : FinishSystem(i)
    \/ \E i \in 1..MaxBatch : PanicSystem(i)
    \/ ReturnFromRun
    \/ collect_events
    \/ add_event
    \/ \E e \in EventValues : send_event(e)
    \/ update_events

SpecApp == Init /\ [][AppNext]_vars

----------------------------------------------------------------------------
(* Properties *)

AllUnread(ev) == Payloads(ev.events_a \o ev.events_b)

Returned == pc = "idle" /\ outcome = "ok"

Entered(i) == st[i] \in {"running", "done", "panicked"}

\* C1: of two collect_events calls in succession with nothing in between, the
\* first returns every pending event and the second returns an empty sequence,
\* because the first call removed the events it returned.
C1_SecondCollectEmpty ==
    /\ (streak = 1 /\ lastResult.ok /\ ~updated) => lastResult.items = sentLog
    /\ (streak = 2 /\ lastResult.ok) => lastResult.items = << >>

\* C2: with the event resource registered and no buffer update since the first
\* event was sent, collect_events returns exactly the events sent, in sending
\* order, each equal to the event sent.
C2_CollectReturnsSent ==
    (streak >= 1 /\ world.events.present /\ ~updated)
        => lastResult = [ok |-> TRUE, items |-> sentLog]

C2_Witness ==
    /\ streak >= 1 /\ ~updated /\ Len(sentLog) = 2
    /\ sentLog[1] # sentLog[2]
    /\ lastResult.items = sentLog

\* C3: a system of a batch that queries the entities sees the entities spawned by
\* the commands of every earlier call and none spawned by a command queued in its
\* own batch; the entities of the world do not change while the batch runs.
C3_FlushBarrier ==
    /\ \A i \in DOMAIN stage :
          (stage[i] = "Query" /\ Entered(i)) => loc[i] = queuedAll - queued
    /\ pc = "running" => world.entities = world0.entities
    /\ (Returned /\ CountOf("Query", stage) > 0) => world.seen = queuedAll - queued

C3_Witness ==
    /\ call = "batch" /\ stage = << "Spawn", "Query" >>
    /\ st = << "done", "running" >>
    /\ queued = 1 /\ queuedAll = 2 /\ loc[2] = 1

\* C4: between calls, every system's logic has executed exactly as often as the
\* system was handed to a call, and the counter a system increments equals the
\* number of times that system was handed to a call.
C4_ExecutedAsPassed ==
    pc = "idle" =>
        /\ \A k \in Systems : executed[k] = passed[k]
        /\ world.res.A = passed["IncA"]
        /\ world.res.B = passed["IncB"]
        /\ world.res.F = passed["Fail"]

C4_Witness ==
    /\ Returned /\ call = "single" /\ stage = << "IncB" >>
    /\ passed["IncA"] = 1 /\ executed["IncA"] = 1 /\ world.res.A = 1

\* C5 as claimed: after a run_system_once whose system failed, the world is as it
\* was before the call.
C5_NoPartialOnFailure ==
    (pc = "idle" /\ outcome = "panic") => world = world0

\* C5 as amended: once the system's logic fails the call is over with the failure
\* reported to the caller, and the world keeps the mutation the system made
\* before failing (nothing is rolled back).
C5_FailureKeepsMutations ==
    (\E i \in DOMAIN st : st[i] = "panicked") =>
        /\ pc = "idle" /\ outcome = "panic"
        /\ world = [world0 EXCEPT !.res.F = @ + 1]

C5_Witness ==
    /\ call = "single" /\ stage = << "Fail" >> /\ st = << "panicked" >>
    /\ world.res.F = 2 /\ world0.res.F = 1

\* C6: collect_events on a world without the event resource fails; it does not
\* return an empty sequence.
C6_MissingResourceFails ==
    (streak >= 1 /\ ~world.events.present) => ~lastResult.ok

C6_Witness == streak = 2 /\ ~world.events.present /\ ~lastResult.ok

\* C7: when run_systems_once has returned, every system of the list it was given
\* has run exactly once, and systems writing disjoint resources have both written.
C7_AllRunOnce ==
    (Returned /\ call = "batch") =>
        /\ Len(stage) = Len(handed)
        /\ \A i \in DOMAIN handed : stage[i] = handed[i] /\ runs[i] = 1 /\ st[i] = "done"
        /\ (CountOf("IncA", handed) <= 1 /\ CountOf("IncB", handed) <= 1) =>
              /\ world.res.A = world0.res.A + CountOf("IncA", handed)
              /\ world.res.B = world0.res.B + CountOf("IncB", handed)

C7_Witness ==
    /\ Returned /\ call = "batch" /\ handed = << "IncB", "IncA" >>
    /\ world.res.A = world0.res.A + 1 /\ world.res.B = world0.res.B + 1

\* C8: when a run call has returned, every command queued during the call has
\* been applied to the world and no command is left in a buffer.
C8_CommandsApplied ==
    Returned =>
        /\ world.entities = world0.entities + queued
        /\ SumSeq(cmds) = 0

C8_Witness ==
    /\ Returned /\ call = "batch" /\ handed = << "Spawn", "Spawn" >>
    /\ queued = 2 /\ world.entities = world0.entities + 2

\* C9: two systems of a batch with conflicting access to a resource never run at
\* the same time, the batch ends without an error, and the resource ends with the
\* value of running them one after the other (no lost update).
C9_ConflictsSerialized ==
    /\ \A i, j \in DOMAIN stage :
          (i # j /\ st[i] = "running" /\ st[j] = "running") =>
              Writes(stage[i]) \cap (Reads(stage[j]) \cup Writes(stage[j])) = {}
    /\ (pc = "idle" /\ call = "batch") =>
          /\ outcome = "ok"
          /\ world.res.A = world0.res.A + CountOf("IncA", handed)
          /\ world.res.B = world0.res.B + CountOf("IncB", handed)

C9_Witness ==
    /\ Returned /\ call = "batch" /\ handed = << "IncA", "IncA" >>
    /\ world.res.A = world0.res.A + 2

====
